---- MODULE Spec2Model ----
(***************************************************************************)
(* A model of the FT6x36 capacitive touch driver                           *)
(* (components/lvgl_esp32_drivers/lvgl_touch/ft6x36.c), built with the     *)
(* coordinates queue compiled in (CONFIG_LV_FT6X36_COORDINATES_QUEUE).     *)
(*                                                                         *)
(* State: the driver's file-scope statics, the FreeRTOS queue behind       *)
(* ft6x36_touch_queue_handle, and the caller's lv_indev_data_t.  One       *)
(* action per public function, plus the consumer task's receive.  The bus  *)
(* (lvgl_i2c_read) is an input: each call draws its status and the bytes   *)
(* it delivers.  A local buffer the bus did not fill is uninitialized, so  *)
(* its content is drawn too.                                               *)
(*                                                                         *)
(* Variables whose comment says "history" are not program state: they      *)
(* record what the calls did, so that properties can speak about it.       *)
(***************************************************************************)
EXTENDS Integers, Sequences, FiniteSets, TLC

VARIABLES
    inited,            \* ft6x36_status.inited
    current_dev_addr,  \* uint8_t current_dev_addr
    touch_inputs,      \* ft6x36_touch_t touch_inputs
    queue_handle,      \* ft6x36_touch_queue_handle: "NULL" or "QUEUE"
    queue,             \* the items held by the queue behind the handle
    data,              \* the caller's lv_indev_data_t after the last sampler call
    cfg,               \* build configuration: CONFIG_LV_FT6X36_SWAPXY, _INVERT_X, _INVERT_Y
    aborted,           \* the firmware aborted (a send on a NULL queue handle)
    consumed,          \* consumer task: the items it received, newest last (at most one kept)
    call,              \* history: the last driver call and what it did
    prev,              \* history: the sampler call right before it, when both are sampler calls
    bus_used,          \* history: some bus read has been issued
    press_run,         \* history: length of the current run of single-touch polls
    run_pubs,          \* history: items put into the queue during that run
    last_pressed,      \* history: coordinates of the most recent Pressed sample
    ever_pressed,      \* history: some sampler call has stored a Pressed sample
    ids                \* history: serial numbers of the publishes (kept under SpecConsumer only)

vars == <<inited, current_dev_addr, touch_inputs, queue_handle, queue, data, cfg,
          aborted, consumed, call, prev, bus_used, press_run, run_pubs, last_pressed,
          ever_pressed, ids>>

(***************************************************************************)
(* Program constants                                                       *)
(***************************************************************************)
LV_INDEV_STATE_REL == "REL"
LV_INDEV_STATE_PR == "PR"

FT6X36_TOUCH_QUEUE_ELEMENTS == 1

\* static ft6x36_touch_t touch_inputs = { -1, -1, LV_INDEV_STATE_REL }
NoTouch == [last_x |-> -1, last_y |-> -1, current_state |-> LV_INDEV_STATE_REL]

\* ft6x36.h: the masks of the coordinate registers (0x0F and 0xFF)
FT6X36_MSB_MASK == 15
FT6X36_LSB_MASK == 255

\* The display resolution of the LVGL configuration
LV_HOR_RES == 320
LV_VER_RES == 240

(***************************************************************************)
(* Bounds and input sets                                                   *)
(***************************************************************************)
\* The longest run of consecutive single-touch polls
MaxRun == 3

\* What a 5-byte read from FT6X36_TD_STAT_REG can deliver (status, XH, XL, YH, YL),
\* and what an unfilled data_buf[5] can hold
BusBuffers ==
    { <<0, 0, 0, 0, 0>>,
      <<0, 0, 10, 0, 20>>,
      <<1, 0, 10, 0, 20>>,
      <<1, 19, 10, 0, 20>>,
      <<2, 0, 10, 0, 20>> }

\* What a 1-byte register read can deliver, and what an unfilled data_buf can hold
BusBytes == {0, 16}

\* What the caller's lv_indev_data_t can hold before a sampler call
DataBefore ==
    { [x |-> 0, y |-> 0, state |-> LV_INDEV_STATE_REL],
      [x |-> 5, y |-> 7, state |-> LV_INDEV_STATE_PR] }

\* The I2C slave addresses ft6x06_init is called with (0x38 is the FT6x36's)
DevAddrs == {56, 57}

(***************************************************************************)
(* Helpers: C integer conversions                                          *)
(***************************************************************************)
\* v & mask, for a mask of the form 2^k - 1
BitAndMask(v, mask) == v % (mask + 1)

\* conversion to int16_t
ToInt16(v) == LET m == v % 65536 IN IF m >= 32768 THEN m - 65536 ELSE m

\* conversion to uint8_t
ToUint8(v) == v % 256

\* The value of a ft6x36_touch_t as the caller's lv_indev_data_t receives it
IndevData(t) == [x |-> t.last_x, y |-> t.last_y, state |-> t.current_state]

(***************************************************************************)
(* The queue (FreeRTOS)                                                    *)
(***************************************************************************)
\* xQueueSend with no wait: the item is appended unless the queue is full
xQueueSend(q, item) ==
    IF Len(q) < FT6X36_TOUCH_QUEUE_ELEMENTS THEN Append(q, item) ELSE q

\* Mutant: the publish is a plain send, which a full queue refuses
xQueueOverwrite_asSend(q, item) == xQueueSend(q, item)

\* Mutant: the queue grows instead of overwriting its slot
xQueueOverwrite_append(q, item) == Append(q, item)

\* xQueueOverwrite: the item is written even when the queue is full
xQueueOverwrite(q, item) ==
    IF Len(q) < FT6X36_TOUCH_QUEUE_ELEMENTS
    THEN Append(q, item)
    ELSE [q EXCEPT ![Len(q)] = item]

(***************************************************************************)
(* ft6x36_read, as functions of the driver state and of what the bus gave  *)
(***************************************************************************)
\* Mutant: the sampler without its initialization guard
ReadNotInited_off == FALSE

\* if (!ft6x36_status.inited) return
ReadNotInited == ~inited

\* Mutant: only "no touch" releases, two or more points count as a press
ReleaseBranch_noTouchOnly(ok, buf) == ~ok \/ buf[1] = 0

\* Mutant: the status of the bus read is not looked at
ReleaseBranch_ignoresStatus(ok, buf) == buf[1] # 1

\* if (ret != ESP_OK || touch_pnt_cnt != 1)
ReleaseBranch(ok, buf) == ~ok \/ buf[1] # 1

\* Mutant: the high byte is masked like the low byte, its bits 4-7 pass
Decode_wideMask(msb, lsb) ==
    BitAndMask(msb, FT6X36_LSB_MASK) * 256 + BitAndMask(lsb, FT6X36_LSB_MASK)

\* ((msb & FT6X36_MSB_MASK) << 8) | (lsb & FT6X36_LSB_MASK)
Decode(msb, lsb) ==
    BitAndMask(msb, FT6X36_MSB_MASK) * 256 + BitAndMask(lsb, FT6X36_LSB_MASK)

DecodedSample(buf) ==
    [last_x |-> ToInt16(Decode(buf[2], buf[3])),
     last_y |-> ToInt16(Decode(buf[4], buf[5])),
     current_state |-> LV_INDEV_STATE_PR]

SwapXY(t) ==
    IF cfg.swap_xy THEN [t EXCEPT !.last_x = t.last_y, !.last_y = t.last_x] ELSE t

InvertX(t) ==
    IF cfg.invert_x THEN [t EXCEPT !.last_x = ToInt16(LV_HOR_RES - t.last_x)] ELSE t

InvertY(t) ==
    IF cfg.invert_y THEN [t EXCEPT !.last_y = ToInt16(LV_VER_RES - t.last_y)] ELSE t

\* Mutant: X is inverted before the axes are swapped
PressedSample_invertFirst(buf) == InvertY(SwapXY(InvertX(DecodedSample(buf))))

\* touch_inputs after the pressed branch
PressedSample(buf) == InvertY(InvertX(SwapXY(DecodedSample(buf))))

\* Mutant: a release forgets the coordinates
ReleasedSample_reset ==
    [last_x |-> -1, last_y |-> -1, current_state |-> LV_INDEV_STATE_REL]

\* touch_inputs after the release branch
ReleasedSample == [touch_inputs EXCEPT !.current_state = LV_INDEV_STATE_REL]

\* Mutant: the comparison is inverted
ReleasePublishes_inverted == touch_inputs.current_state = LV_INDEV_STATE_REL

\* Mutant: the release branch never publishes
ReleasePublishes_never == FALSE

\* Mutant: every poll of the release branch publishes
ReleasePublishes_always == TRUE

\* if (touch_inputs.current_state != LV_INDEV_STATE_REL) { ...; xQueueOverwrite }
ReleasePublishes == touch_inputs.current_state # LV_INDEV_STATE_REL

\* Mutant: a pressed sample is published only when it differs from the stored one
PressPublishes_onChange(buf) == PressedSample(buf) # touch_inputs

\* the pressed branch ends with an unconditional xQueueOverwrite
PressPublishes(buf) == TRUE

ReadBranch(ok, buf) ==
    IF ReadNotInited THEN "uninit"
    ELSE IF ReleaseBranch(ok, buf) THEN "release"
    ELSE "pressed"

\* touch_inputs after the call
NextTouch(ok, buf) ==
    CASE ReadBranch(ok, buf) = "uninit" -> touch_inputs
      [] ReadBranch(ok, buf) = "release" -> ReleasedSample
      [] OTHER -> PressedSample(buf)

\* the call reaches an xQueueOverwrite
Sends(ok, buf) ==
    CASE ReadBranch(ok, buf) = "uninit" -> FALSE
      [] ReadBranch(ok, buf) = "release" -> ReleasePublishes
      [] OTHER -> PressPublishes(buf)

\* xQueueOverwrite on a NULL handle: configASSERT(pxQueue) fails, or NULL is
\* dereferenced; either way the firmware aborts inside the call
Aborts(ok, buf) == Sends(ok, buf) /\ queue_handle = "NULL"

\* the queue after the call
NextQueue(ok, buf) ==
    IF Sends(ok, buf) /\ ~Aborts(ok, buf)
    THEN xQueueOverwrite(queue, NextTouch(ok, buf))
    ELSE queue

\* the number of items the call put into the queue
Pubs(ok, buf) == IF Sends(ok, buf) /\ ~Aborts(ok, buf) THEN 1 ELSE 0

\* the caller's structure after the call: untouched when the guard returns; in
\* the release branch written after the send, in the pressed branch before it
NextData(ok, buf, d0) ==
    CASE ReadBranch(ok, buf) = "uninit" -> d0
      [] ReadBranch(ok, buf) = "release" ->
            IF Aborts(ok, buf) THEN d0 ELSE IndevData(NextTouch(ok, buf))
      [] OTHER -> IndevData(NextTouch(ok, buf))

\* Mutant: the status byte and the coordinates are read separately
ReadBus_twoReads ==
    IF ReadNotInited THEN <<>>
    ELSE << [addr |-> current_dev_addr, reg |-> "TD_STAT", len |-> 1],
            [addr |-> current_dev_addr, reg |-> "P1_XH", len |-> 4] >>

\* the bus reads the call issues
ReadBus ==
    IF ReadNotInited THEN <<>>
    ELSE << [addr |-> current_dev_addr, reg |-> "TD_STAT", len |-> 5] >>

\* Mutant: more data is reported pending when several points are touched
ReadReturn_multiTouch(ok, buf) == ~ReadNotInited /\ ok /\ buf[1] >= 2

\* the bool ft6x36_read returns ("more data pending")
ReadReturn(ok, buf) == FALSE

\* ESP_LOGE lines of the call
ReadLog(ok, buf) ==
    IF ReadNotInited THEN {"init_first"}
    ELSE IF ~ok THEN {"bus_error"} ELSE {}

(***************************************************************************)
(* ft6x36_get_gesture_id                                                   *)
(***************************************************************************)
\* if (!ft6x36_status.inited) return 0x00
GestureNotInited == ~inited

\* return data_buf: the byte read, or what the unfilled local held
GestureReturn(ok, byte, junk) ==
    IF GestureNotInited THEN 0
    ELSE IF ok THEN byte ELSE junk

GestureBus ==
    IF GestureNotInited THEN <<>>
    ELSE << [addr |-> current_dev_addr, reg |-> "GEST_ID", len |-> 1] >>

GestureLog(ok) ==
    IF GestureNotInited THEN {"init_first"}
    ELSE IF ~ok THEN {"bus_error"} ELSE {}

(***************************************************************************)
(* ft6x06_init                                                             *)
(***************************************************************************)
\* Which of the five diagnostic reads fail
DiagFailures == { {}, {1}, {2, 5}, {1, 2, 3, 4, 5} }

\* the five diagnostic reads, in order
InitRegisters == <<"PANEL_ID", "CHIPSELECT", "DEV_MODE", "FIRMWARE_ID", "RELEASECODE">>

InitBus(dev_addr) ==
    [i \in 1..Len(InitRegisters) |->
        [addr |-> ToUint8(dev_addr), reg |-> InitRegisters[i], len |-> 1]]

\* only the first read's status is looked at; a failed allocation is logged
InitLog(failed, alloc_ok) ==
    (IF 1 \in failed THEN {"bus_error"} ELSE {})
        \cup (IF alloc_ok THEN {} ELSE {"queue_error"})

\* Mutant: a failed diagnostic read aborts the initialization
InitInited_unlessFailed(failed) == inited \/ failed = {}

\* ft6x36_status.inited = true, before the diagnostic reads
InitInited(failed) == TRUE

\* Mutant: the address is stored only when the diagnostic reads succeed
InitAddr_unlessFailed(dev_addr, failed) ==
    IF failed = {} THEN ToUint8(dev_addr) ELSE current_dev_addr

\* current_dev_addr = dev_addr, before the diagnostic reads
InitAddr(dev_addr, failed) == ToUint8(dev_addr)

\* xQueueCreate, then xQueueSend of touch_inputs unless the handle is NULL
InitHandle(alloc_ok) == IF alloc_ok THEN "QUEUE" ELSE "NULL"

\* Mutant: the new queue is seeded with the initializer of touch_inputs
InitQueue_sentinel(alloc_ok) == IF alloc_ok THEN xQueueSend(<<>>, NoTouch) ELSE <<>>

InitQueue(alloc_ok) == IF alloc_ok THEN xQueueSend(<<>>, touch_inputs) ELSE <<>>

(***************************************************************************)
(* Initial state: the statics as the file initializes them                 *)
(***************************************************************************)
\* The record of a driver call: op, seq (flips at every call), the driver state it found (inited, before),
\* what the bus gave it (ok, buf or byte), what it did (branch, bus, pubs, log),
\* whether it returned and what (ret, more, out), and touch_inputs after it
NoCall ==
    [op |-> "none", seq |-> 0, arg |-> 0, failed |-> {}, inited |-> FALSE, before |-> NoTouch, ok |-> FALSE, buf |-> <<>>,
     byte |-> 0, branch |-> "none", bus |-> <<>>, pubs |-> 0, log |-> {},
     returned |-> FALSE, ret |-> 0, more |-> FALSE,
     out |-> IndevData(NoTouch), stored |-> NoTouch]

\* Serial numbers: publishes made so far, the numbers of the items the queue
\* holds, the number the consumer received last, and whether an item was
\* overwritten or dropped before the consumer received it
NoIds == [made |-> 0, q |-> <<>>, got |-> 0, lost |-> FALSE]

Init ==
    /\ inited = FALSE
    /\ current_dev_addr = 0
    /\ touch_inputs = NoTouch
    /\ queue_handle = "NULL"
    /\ queue = <<>>
    /\ data = [x |-> 0, y |-> 0, state |-> LV_INDEV_STATE_REL]
    /\ cfg \in [swap_xy : BOOLEAN, invert_x : BOOLEAN, invert_y : BOOLEAN]
    /\ aborted = FALSE
    /\ consumed = <<>>
    /\ call = NoCall
    /\ prev = NoCall
    /\ bus_used = FALSE
    /\ press_run = 0
    /\ run_pubs = 0
    /\ last_pressed = [x |-> -1, y |-> -1]
    /\ ever_pressed = FALSE
    /\ ids = NoIds

(***************************************************************************)
(* Actions                                                                 *)
(***************************************************************************)
\* bool ft6x36_read(drv, data): ok and buf are what the bus read gives (buf is
\* what the unfilled buffer holds when the read fails), d0 what *data held
ft6x36_read(ok, buf, d0) ==
    /\ ~aborted
    /\ ReadBranch(ok, buf) = "pressed" => press_run < MaxRun
    /\ touch_inputs' = NextTouch(ok, buf)
    /\ queue' = NextQueue(ok, buf)
    /\ data' = NextData(ok, buf, d0)
    /\ aborted' = Aborts(ok, buf)
    /\ call' = [op |-> "read", seq |-> 1 - call.seq, arg |-> 0, failed |-> {}, inited |-> inited, before |-> touch_inputs,
                ok |-> ReadBus # <<>> /\ ok,
                buf |-> IF ReadBus # <<>> THEN buf ELSE <<>>,
                byte |-> 0,
                branch |-> ReadBranch(ok, buf),
                bus |-> ReadBus,
                pubs |-> Pubs(ok, buf),
                log |-> ReadLog(ok, buf),
                returned |-> ~Aborts(ok, buf),
                ret |-> 0,
                more |-> ReadReturn(ok, buf),
                out |-> NextData(ok, buf, d0),
                stored |-> NextTouch(ok, buf)]
    /\ prev' = IF call.op = "read" THEN call ELSE NoCall
    /\ bus_used' = (bus_used \/ ReadBus # <<>>)
    /\ press_run' = IF ReadBranch(ok, buf) = "pressed" THEN press_run + 1 ELSE 0
    /\ run_pubs' = IF ReadBranch(ok, buf) = "pressed" THEN run_pubs + Pubs(ok, buf) ELSE 0
    /\ last_pressed' = IF ReadBranch(ok, buf) = "pressed"
                       THEN [x |-> NextTouch(ok, buf).last_x, y |-> NextTouch(ok, buf).last_y]
                       ELSE last_pressed
    /\ ever_pressed' = (ever_pressed \/ ReadBranch(ok, buf) = "pressed")
    /\ UNCHANGED <<inited, current_dev_addr, queue_handle, cfg, consumed>>

\* uint8_t ft6x36_get_gesture_id(): ok and byte are what the bus read gives,
\* junk what the local data_buf holds when the read does not fill it
ft6x36_get_gesture_id(ok, byte, junk) ==
    /\ ~aborted
    /\ call' = [NoCall EXCEPT
                !.op = "gesture", !.seq = 1 - call.seq, !.inited = inited, !.before = touch_inputs,
                !.ok = GestureBus # <<>> /\ ok,
                !.byte = IF GestureBus # <<>> /\ ok THEN byte ELSE 0,
                !.bus = GestureBus,
                !.log = GestureLog(ok),
                !.returned = TRUE,
                !.ret = GestureReturn(ok, byte, junk),
                !.out = data, !.stored = touch_inputs]
    /\ prev' = NoCall
    /\ bus_used' = (bus_used \/ GestureBus # <<>>)
    /\ UNCHANGED <<inited, current_dev_addr, touch_inputs, queue_handle, queue, data,
                   cfg, aborted, consumed, press_run, run_pubs, last_pressed,
                   ever_pressed>>

\* void ft6x06_init(uint16_t dev_addr): failed is the set of diagnostic reads
\* that fail, alloc_ok whether xQueueCreate returns a queue
ft6x06_init(dev_addr, failed, alloc_ok) ==
    /\ ~aborted
    /\ inited' = InitInited(failed)
    /\ current_dev_addr' = InitAddr(dev_addr, failed)
    /\ queue_handle' = InitHandle(alloc_ok)
    /\ queue' = InitQueue(alloc_ok)
    /\ call' = [NoCall EXCEPT
                !.op = "init", !.seq = 1 - call.seq, !.arg = dev_addr, !.failed = failed,
                !.inited = inited, !.before = touch_inputs,
                !.ok = (failed = {}),
                !.bus = InitBus(dev_addr),
                !.pubs = Len(InitQueue(alloc_ok)),
                !.log = InitLog(failed, alloc_ok),
                !.returned = TRUE,
                !.out = data, !.stored = touch_inputs]
    /\ prev' = NoCall
    /\ bus_used' = TRUE
    /\ UNCHANGED <<touch_inputs, data, cfg, aborted, consumed, press_run, run_pubs,
                   last_pressed, ever_pressed>>

\* The consumer task: xQueueReceive on ft6x36_touch_queue_handle
Receive ==
    /\ ~aborted
    /\ queue_handle # "NULL"
    /\ queue # <<>>
    /\ consumed' = <<Head(queue)>>
    /\ queue' = Tail(queue)
    /\ ids' = IF ids.q = <<>> THEN ids
              ELSE [ids EXCEPT !.q = Tail(@), !.got = Head(ids.q)]
    /\ UNCHANGED <<inited, current_dev_addr, touch_inputs, queue_handle, data, cfg,
                   aborted, call, prev, bus_used, press_run, run_pubs, last_pressed,
                   ever_pressed>>

Poll ==
    /\ \E ok \in BOOLEAN, buf \in BusBuffers, d0 \in DataBefore : ft6x36_read(ok, buf, d0)
    /\ UNCHANGED ids

Gesture ==
    /\ \E ok \in BOOLEAN, byte \in BusBytes, junk \in BusBytes :
           ft6x36_get_gesture_id(ok, byte, junk)
    /\ UNCHANGED ids

Initialize ==
    /\ \E dev_addr \in DevAddrs, failed \in DiagFailures, alloc_ok \in BOOLEAN :
           ft6x06_init(dev_addr, failed, alloc_ok)
    /\ UNCHANGED ids

Next == Poll \/ Gesture \/ Initialize \/ Receive

Spec == Init /\ [][Next]_vars

(***************************************************************************)
(* Properties                                                              *)
(***************************************************************************)
\* A step that is a sampler call (every driver call flips call.seq)
PollStep == call'.seq # call.seq /\ call'.op = "read"

\* C1: as long as ft6x06_init has not been called, no call of ft6x36_read or
\* ft6x36_get_gesture_id has issued a bus read: none ever, and none in the last call.
C1_NoBusReadBeforeInit == ~inited => (~bus_used /\ call.bus = <<>>)

\* A gesture read made before init, after a sampler call made before init (only
\* such a sampler call leaves the caller's structure Pressed)
C1_Witness ==
    /\ ~inited
    /\ call.op = "gesture"
    /\ data.state = LV_INDEV_STATE_PR

\* C2: a sampler call on an uninitialized device delivers the sample
\* (-1, -1, Released) to its caller, whatever the structure held before.
C2_UninitializedReadDeliversSentinel ==
    (call.op = "read" /\ ~call.inited) => data = IndevData(NoTouch)

\* C3: ft6x36_get_gesture_id returns 0 when the device is not initialized and when
\* its register read fails, and the byte read when initialized and the read succeeds.
C3_GestureIdZeroOnFailure ==
    call.op = "gesture" =>
        call.ret = (IF call.inited /\ call.ok THEN call.byte ELSE 0)

\* C4: a sampler call on an initialized device that returns delivers state Pressed
\* if and only if its bus read succeeded with touch-point count 1, and state
\* Released in every other case.
C4_PressedIffSingleTouch ==
    (call.op = "read" /\ call.inited /\ call.returned) =>
        /\ data.state \in {LV_INDEV_STATE_PR, LV_INDEV_STATE_REL}
        /\ data.state = LV_INDEV_STATE_PR <=> (call.ok /\ call.buf[1] = 1)

\* A Pressed sample right after a poll that saw two touch points and returned Released
C4_Witness ==
    /\ call.op = "read" /\ call.returned
    /\ call.ok /\ call.buf[1] = 1
    /\ data.state = LV_INDEV_STATE_PR
    /\ prev.op = "read" /\ prev.returned
    /\ prev.ok /\ prev.buf[1] >= 2
    /\ prev.out.state = LV_INDEV_STATE_REL

\* C5: with the channel allocated, a poll that takes the stored state from Pressed
\* to Released puts exactly one item, the Released sample, into the channel, and a
\* poll of the release branch that finds the stored state already Released puts
\* nothing into it.
C5_EdgeTriggeredRelease ==
    [][(PollStep /\ queue_handle # "NULL") =>
          /\ (/\ touch_inputs.current_state = LV_INDEV_STATE_PR
              /\ touch_inputs'.current_state = LV_INDEV_STATE_REL)
                => (call'.pubs = 1 /\ queue' = <<touch_inputs'>>)
          /\ (/\ touch_inputs.current_state = LV_INDEV_STATE_REL
              /\ call'.inited
              /\ (~call'.ok \/ call'.buf[1] # 1))
                => (call'.pubs = 0 /\ queue' = queue)]_vars

\* A release poll that published nothing, right after the poll that made the
\* Pressed-to-Released transition and published once
C5_Witness ==
    /\ call.op = "read" /\ prev.op = "read"
    /\ prev.before.current_state = LV_INDEV_STATE_PR
    /\ prev.stored.current_state = LV_INDEV_STATE_REL
    /\ prev.pubs = 1
    /\ call.branch = "release"
    /\ call.pubs = 0

\* C6: with the channel allocated, every poll of an initialized device whose bus
\* read succeeds with touch-point count 1 puts its sample into the channel, so a
\* run of N such polls makes N publishes, also when the coordinates do not change.
C6_LevelTriggeredPress ==
    /\ [](queue_handle # "NULL" => run_pubs = press_run)
    /\ [][(/\ PollStep /\ queue_handle # "NULL"
           /\ call'.inited /\ call'.ok /\ call'.buf[1] = 1)
             => /\ press_run' = press_run + 1
                /\ run_pubs' = run_pubs + 1
                /\ queue' = <<touch_inputs'>>]_vars

\* A run of at least two single-touch polls with the same coordinates, each published
C6_Witness ==
    /\ call.op = "read" /\ prev.op = "read"
    /\ press_run >= 2 /\ run_pubs >= 2
    /\ call.pubs = 1 /\ prev.pubs = 1
    /\ prev.stored = call.stored

\* What a sampler call with the bus result (ok, buf) would do in the current state
C7_Outcome(ok, buf, d0) ==
    [stored |-> NextTouch(ok, buf), out |-> NextData(ok, buf, d0),
     queue |-> NextQueue(ok, buf), pubs |-> Pubs(ok, buf), aborts |-> Aborts(ok, buf)]

\* C7: from every state of an initialized device, a poll whose bus read fails, a
\* poll that sees count 0 and a poll that sees count >= 2 give the same returned
\* sample, the same stored state and the same channel content.
C7_ReleaseCauseNotObservable ==
    inited =>
        \A d0 \in DataBefore, junk \in BusBuffers,
           none \in {b \in BusBuffers : b[1] = 0},
           multi \in {b \in BusBuffers : b[1] >= 2} :
            /\ C7_Outcome(FALSE, junk, d0) = C7_Outcome(TRUE, none, d0)
            /\ C7_Outcome(TRUE, multi, d0) = C7_Outcome(TRUE, none, d0)

\* A poll whose bus read failed while the stored state was Pressed, and that published
C7_Witness ==
    /\ inited
    /\ call.op = "read" /\ call.inited /\ ~call.ok
    /\ call.buf[1] = 1
    /\ call.before.current_state = LV_INDEV_STATE_PR
    /\ call.pubs = 1
    /\ data.state = LV_INDEV_STATE_REL

\* C8: a poll that takes the release branch leaves last_x and last_y as they are and,
\* when it returns, returns them; the coordinates of a Released sample are those of
\* the most recent Pressed sample, or (-1, -1) when there has been none.
C8_StickyCoordinates ==
    /\ [][(PollStep /\ call'.inited /\ (~call'.ok \/ call'.buf[1] # 1)) =>
             /\ touch_inputs'.last_x = touch_inputs.last_x
             /\ touch_inputs'.last_y = touch_inputs.last_y
             /\ call'.returned =>
                    (data'.x = touch_inputs.last_x /\ data'.y = touch_inputs.last_y)]_vars
    /\ []((/\ call.op = "read" /\ call.inited /\ call.returned
           /\ data.state = LV_INDEV_STATE_REL)
             => (data.x = last_pressed.x /\ data.y = last_pressed.y))

\* A Released sample that carries the coordinates of the Pressed sample before it
C8_Witness ==
    /\ call.op = "read" /\ prev.op = "read"
    /\ prev.out.state = LV_INDEV_STATE_PR
    /\ call.returned
    /\ data.state = LV_INDEV_STATE_REL
    /\ data.x = prev.out.x /\ data.y = prev.out.y
    /\ data.x # -1

\* C9: of two consecutive polls of an initialized device whose bus reads succeed
\* with the same data and report no touch, the second returns the same sample as
\* the first, leaves touch_inputs and the channel as they are and publishes nothing.
C9_NoTouchIdempotent ==
    [][(/\ PollStep
        /\ call.op = "read" /\ call.inited /\ call.ok /\ call.buf[1] = 0
        /\ call'.ok /\ call'.buf = call.buf)
          => /\ call'.returned
             /\ call'.out = call.out
             /\ touch_inputs' = touch_inputs
             /\ queue' = queue
             /\ call'.pubs = 0]_vars

\* Two no-touch polls with the same bus data, the first of which made the release
\* transition and published
C9_Witness ==
    /\ call.op = "read" /\ prev.op = "read"
    /\ prev.inited /\ prev.ok /\ call.ok
    /\ prev.buf = call.buf /\ call.buf[1] = 0
    /\ prev.pubs = 1 /\ call.pubs = 0
    /\ call.out = prev.out

\* A sampler call that reaches a publish: the pressed branch, or the release
\* branch taken while the stored state is Pressed
C10_Publishes ==
    /\ PollStep /\ call'.inited
    /\ \/ call'.ok /\ call'.buf[1] = 1
       \/ touch_inputs.current_state = LV_INDEV_STATE_PR

\* C10: the channel never holds more than one item, and a sampler publish into a
\* full channel returns with the channel holding the new sample in place of the old.
C10_SingleSlotOverwrite ==
    /\ [](Len(queue) <= 1)
    /\ [][(C10_Publishes /\ queue_handle # "NULL" /\ Len(queue) = 1)
            => (call'.returned /\ queue' = <<touch_inputs'>>)]_vars

\* A publish that replaced a different, unreceived sample in the channel
C10_Witness ==
    /\ call.op = "read" /\ prev.op = "read"
    /\ prev.pubs = 1 /\ call.pubs = 1
    /\ prev.stored # call.stored
    /\ queue = <<touch_inputs>>
    /\ consumed = <<>>

\* A step that is a call of ft6x06_init
InitStep == call'.seq # call.seq /\ call'.op = "init"

\* A step that is a sampler or gesture call on an initialized device
ReadingStep ==
    /\ call'.seq # call.seq
    /\ call'.op \in {"read", "gesture"}
    /\ inited

\* C12: every call of ft6x06_init, whichever of its diagnostic reads fail, leaves the
\* device initialized with the given address stored, and every sampler or gesture
\* call on an initialized device issues its bus read, at the stored address.
C12_InitIgnoresDiagnosticFailures ==
    /\ [][InitStep => (inited' /\ current_dev_addr' = call'.arg)]_vars
    /\ [][ReadingStep =>
            (Len(call'.bus) = 1 /\ call'.bus[1].addr = current_dev_addr)]_vars

\* An ft6x06_init all of whose diagnostic reads failed: the device is initialized
\* with the address given, and the next sampler call reads the bus at it
C12_Witness ==
    /\ call.op = "init"
    /\ call.failed = {1, 2, 3, 4, 5}
    /\ call.arg = 57
    /\ inited
    /\ current_dev_addr = 57
    /\ ReadBus = << [addr |-> 57, reg |-> "TD_STAT", len |-> 5] >>

\* C13 as stated: after every ft6x06_init whose allocation succeeds the channel
\* holds exactly one item, the sentinel (-1, -1, Released), also when samples have
\* been taken before.
C13_InitSeedsSentinel ==
    [][(InitStep /\ queue_handle' # "NULL") => queue' = <<NoTouch>>]_vars

\* C13 as amended: after every ft6x06_init whose allocation succeeds the channel
\* holds exactly one item, the stored touch_inputs: the sentinel as long as no
\* Pressed sample has been stored, the last sample afterwards.
C13_InitSeedsStoredSample ==
    [][(InitStep /\ queue_handle' # "NULL") =>
          /\ queue' = <<touch_inputs>>
          /\ ~ever_pressed => queue' = <<NoTouch>>]_vars

\* An ft6x06_init after a Pressed sample: the channel holds that sample
C13_Witness ==
    /\ call.op = "init"
    /\ queue_handle # "NULL"
    /\ ever_pressed
    /\ queue = <<touch_inputs>>
    /\ touch_inputs # NoTouch

\* C14: the value ft6x36_read returns is false at every call.
C14_NeverMoreData == call.op = "read" => call.more = FALSE

\* A poll that saw two touch points, after a Pressed one, and returned false
C14_Witness ==
    /\ call.op = "read" /\ prev.op = "read"
    /\ prev.branch = "pressed"
    /\ call.branch = "release" /\ call.ok /\ call.buf[1] >= 2
    /\ call.returned
    /\ call.more = FALSE

\* C17: every sampler call on an initialized device issues exactly one bus read, of
\* 5 bytes from the touch-status register, whether it succeeds or fails; and a poll
\* whose read succeeds with count 1 right after a poll whose read failed returns
\* Pressed with the coordinates of its own bytes.
C17_OneReadNoCarryOver ==
    /\ (call.op = "read" /\ call.inited) =>
           call.bus = << [addr |-> current_dev_addr, reg |-> "TD_STAT", len |-> 5] >>
    /\ (/\ call.op = "read" /\ prev.op = "read"
        /\ prev.inited /\ ~prev.ok
        /\ call.ok /\ call.buf[1] = 1
        /\ call.returned)
           => data = IndevData(PressedSample(call.buf))

\* A read that failed during a press, followed by a Pressed sample
C17_Witness ==
    /\ call.op = "read" /\ prev.op = "read"
    /\ prev.inited /\ ~prev.ok
    /\ prev.before.current_state = LV_INDEV_STATE_PR
    /\ prev.out.state = LV_INDEV_STATE_REL
    /\ Len(prev.bus) = 1 /\ Len(call.bus) = 1
    /\ call.ok /\ call.buf[1] = 1
    /\ call.returned
    /\ data.state = LV_INDEV_STATE_PR

\* C19: when the allocation in ft6x06_init has failed, the device is initialized
\* and no sampler call sends on the NULL handle: every sampler call returns.
C19_NoSendOnNullChannel ==
    (call.op = "read" /\ queue_handle = "NULL") => (call.returned /\ ~aborted)

\* C20: whenever the channel holds an item, the item is the stored touch_inputs.
C20_ChannelFresh ==
    (queue_handle # "NULL" /\ queue # <<>>) => queue = <<touch_inputs>>

\* The Released sample of a release transition, held by the channel
C20_Witness ==
    /\ call.op = "read"
    /\ call.before.current_state = LV_INDEV_STATE_PR
    /\ touch_inputs.current_state = LV_INDEV_STATE_REL
    /\ call.pubs = 1
    /\ queue = <<touch_inputs>>

(***************************************************************************)
(* The pressed branch as a function of the bytes read: one ft6x06_init,    *)
(* then one sampler call whose read succeeds with touch-point count 1.     *)
(* SpecDecode draws every value of the two bytes of X, and of Y, with no   *)
(* transform configured; SpecSample draws bytes around the resolution      *)
(* under every transform configuration.                                    *)
(***************************************************************************)
Byte == 0..255

NoTransform == [swap_xy |-> FALSE, invert_x |-> FALSE, invert_y |-> FALSE]

\* One touch point, the two bytes of one axis drawn, the other axis fixed
DecodeBuffer(axis, h, l) ==
    IF axis = "x" THEN <<1, h, l, 0, 20>> ELSE <<1, 0, 10, h, l>>

SampleMsb == {0, 1, 15, 243}
SampleLsb == {10, 20, 65, 241, 255}

SampleBuffers ==
    {<<1, xh, xl, yh, yl>> : xh \in SampleMsb, xl \in SampleLsb,
                             yh \in SampleMsb, yl \in SampleLsb}

FirstInit == call.op = "none" /\ ft6x06_init(56, {}, TRUE) /\ UNCHANGED ids

PollDecode ==
    /\ call.op = "init"
    /\ \E axis \in {"x", "y"}, h \in Byte, l \in Byte, d0 \in DataBefore :
           ft6x36_read(TRUE, DecodeBuffer(axis, h, l), d0)
    /\ UNCHANGED ids

PollSample ==
    /\ call.op = "init"
    /\ \E buf \in SampleBuffers, d0 \in DataBefore : ft6x36_read(TRUE, buf, d0)
    /\ UNCHANGED ids

InitDecode == Init /\ cfg = NoTransform

NextDecode == FirstInit \/ PollDecode

SpecDecode == InitDecode /\ [][NextDecode]_vars

NextSample == FirstInit \/ PollSample

SpecSample == Init /\ [][NextSample]_vars

\* Bitwise and, or of two naturals, bit by bit
RECURSIVE C15_BitAnd(_, _)
C15_BitAnd(a, b) ==
    IF a = 0 \/ b = 0 THEN 0
    ELSE (IF a % 2 = 1 /\ b % 2 = 1 THEN 1 ELSE 0) + 2 * C15_BitAnd(a \div 2, b \div 2)

RECURSIVE C15_BitOr(_, _)
C15_BitOr(a, b) ==
    IF a = 0 THEN b
    ELSE IF b = 0 THEN a
    ELSE (IF a % 2 = 1 \/ b % 2 = 1 THEN 1 ELSE 0) + 2 * C15_BitOr(a \div 2, b \div 2)

\* ((hi & 0x0F) << 8) | (lo & 0xFF)
C15_Coordinate(hi, lo) == C15_BitOr(C15_BitAnd(hi, 15) * 256, C15_BitAnd(lo, 255))

\* C15: with no transform enabled, a successful read with status byte 1 and bytes
\* [X_hi, X_lo, Y_hi, Y_lo] returns X = ((X_hi & 0x0F) << 8) | (X_lo & 0xFF) and
\* Y = ((Y_hi & 0x0F) << 8) | (Y_lo & 0xFF); X_hi = 0x03, X_lo = 0xFF gives 0x3FF, and
\* bits 4-7 of the high bytes do not change the result.
C15_CoordinateDecoding ==
    (call.op = "read" /\ call.ok /\ call.buf[1] = 1 /\ cfg = NoTransform) =>
        /\ data.state = LV_INDEV_STATE_PR
        /\ data.x = C15_Coordinate(call.buf[2], call.buf[3])
        /\ data.y = C15_Coordinate(call.buf[4], call.buf[5])
        /\ data.x = C15_Coordinate(call.buf[2] % 16, call.buf[3])
        /\ data.y = C15_Coordinate(call.buf[4] % 16, call.buf[5])
        /\ (call.buf[2] = 3 /\ call.buf[3] = 255) => data.x = 1023

\* X_hi = 0xF3, X_lo = 0xFF read as X = 0x3FF
C15_Witness ==
    /\ call.op = "read" /\ call.ok
    /\ cfg = NoTransform
    /\ call.buf[1] = 1 /\ call.buf[2] = 243 /\ call.buf[3] = 255
    /\ data.x = 1023
    /\ data.state = LV_INDEV_STATE_PR

\* The sample the claimed order gives: swap, then X := LV_HOR_RES - X, then
\* Y := LV_VER_RES - Y, each if enabled
C16_Expected(x, y) ==
    LET sx == IF cfg.swap_xy THEN y ELSE x
        sy == IF cfg.swap_xy THEN x ELSE y
    IN  [x |-> IF cfg.invert_x THEN LV_HOR_RES - sx ELSE sx,
         y |-> IF cfg.invert_y THEN LV_VER_RES - sy ELSE sy,
         state |-> LV_INDEV_STATE_PR]

\* C16: for every combination of swap_xy, invert_x and invert_y and every decoded
\* (X, Y), the Pressed sample is the result of swap, then invert X, then invert Y;
\* with swap and invert_x on, invert_y off, raw (10, 20) gives (300, 10).
C16_TransformOrder ==
    (call.op = "read" /\ call.ok /\ call.buf[1] = 1) =>
        /\ data = C16_Expected(C15_Coordinate(call.buf[2], call.buf[3]),
                               C15_Coordinate(call.buf[4], call.buf[5]))
        /\ (/\ cfg = [swap_xy |-> TRUE, invert_x |-> TRUE, invert_y |-> FALSE]
            /\ call.buf = <<1, 0, 10, 0, 20>>)
              => (data.x = 300 /\ data.y = 10)

\* Raw (10, 20) with swap and invert_x on and invert_y off, returned as (300, 10)
C16_Witness ==
    /\ call.op = "read" /\ call.ok
    /\ cfg = [swap_xy |-> TRUE, invert_x |-> TRUE, invert_y |-> FALSE]
    /\ call.buf = <<1, 0, 10, 0, 20>>
    /\ data = [x |-> 300, y |-> 10, state |-> LV_INDEV_STATE_PR]

\* C18: the stored coordinates are (-1, -1) only if no Pressed sample has ever been
\* stored.
C18_SentinelMeansNeverTouched ==
    (touch_inputs.last_x = -1 /\ touch_inputs.last_y = -1) => ~ever_pressed

(***************************************************************************)
(* The producer and the consumer task.  SpecConsumer numbers the publishes:*)
(* every item put into the queue gets the next serial number, and the      *)
(* numbers go through the same queue operations as the items.              *)
(***************************************************************************)
MaxPubs == 4

\* ids after a sampler call: lines 126 and 156
ReadIds(ok, buf) ==
    IF Sends(ok, buf) /\ ~Aborts(ok, buf)
    THEN [ids EXCEPT !.made = @ + 1,
                     !.q = xQueueOverwrite(@, ids.made + 1),
                     !.lost = @ \/ ids.q # <<>>]
    ELSE ids

\* ids after ft6x06_init: a new queue, seeded by the send of line 98
InitIds(alloc_ok) ==
    IF alloc_ok
    THEN [ids EXCEPT !.made = @ + 1,
                     !.q = xQueueSend(<<>>, ids.made + 1),
                     !.lost = @ \/ ids.q # <<>>]
    ELSE [ids EXCEPT !.q = <<>>, !.lost = @ \/ ids.q # <<>>]

PollConsumer ==
    /\ ids.made < MaxPubs
    /\ \E ok \in BOOLEAN, buf \in BusBuffers, d0 \in DataBefore :
           ft6x36_read(ok, buf, d0) /\ ids' = ReadIds(ok, buf)

InitializeConsumer ==
    /\ ids.made < MaxPubs
    /\ ft6x06_init(56, {}, TRUE) /\ ids' = InitIds(TRUE)

InitConsumer == Init /\ cfg = NoTransform

NextConsumer == InitializeConsumer \/ PollConsumer \/ Receive

SpecConsumer == InitConsumer /\ [][NextConsumer]_vars

\* A step of the consumer task: no driver call, and an item leaves the queue
ReceiveStep == call' = call /\ Len(queue') < Len(queue)

\* C11: with one consumer receiving at arbitrary points between polls, every receive
\* yields a publish newer than every publish received before (never an older one,
\* never the same one twice); it is the newest publish made, so what is lost is
\* exactly what was overwritten before being received; and a sampler call returns,
\* its sample in the queue, whether or not the consumer has emptied the queue.
C11_ConsumerOrder ==
    /\ [][ReceiveStep =>
            /\ ids'.got > ids.got
            /\ ids'.got = ids.made
            /\ consumed' = <<touch_inputs>>]_vars
    /\ [][PollStep =>
            /\ call'.returned
            /\ call'.pubs > 0 => (queue' = <<touch_inputs'>> /\ ids'.q = <<ids'.made>>)]_vars

\* The consumer has received the newest publish, a Pressed sample, after an
\* earlier one was overwritten unreceived and after having received one before
C11_Witness ==
    /\ ids.lost
    /\ ids.got = ids.made
    /\ ids.made = MaxPubs
    /\ ids.q = <<>>
    /\ call.op = "read"
    /\ consumed = <<touch_inputs>>
    /\ touch_inputs.current_state = LV_INDEV_STATE_PR

====
